---------------------------- MODULE Spec2Model ----------------------------
(***************************************************************************)
(* JESD204B bring-up orchestration of the AXAU15 / ADC08DJ5200RF target    *)
(* (src/axau15_adc08dj5200rf.py, BaseSoC.__init__, lines 114-373).         *)
(*                                                                         *)
(* Two machines are described over one set of variables:                   *)
(*   - ConfigSpec: the JESD part of the constructor BaseSoC.__init__, run  *)
(*     statement block by statement block on a lane order map drawn from   *)
(*     a bounded set (the map is the configuration input of the block).    *)
(*   - Spec / FairSpec: the elaborated hardware after construction with    *)
(*     the map of the source, [3, 0, 2, 1]: the lanes' init-done flags,    *)
(*     the reset synchronizer of the jesd clock domain, the protocol       *)
(*     core's enable / jsync and the link status.                          *)
(* Physical lane i (0-based, as in the source) sits at position i + 1 of   *)
(* the sequences.  Frequencies are in kHz (the line rate in Hz does not    *)
(* fit TLC's 32-bit integers).                                             *)
(***************************************************************************)
EXTENDS Integers, Sequences, FiniteSets, TLC

VARIABLES
    pc,                    \* position in BaseSoC.__init__ / "run" / "fault"
    fault,                 \* exception that ended construction, "" if none
    adc08dj_phy_rx_order,  \* the lane order map (line 118)
    jesd_lanes,            \* len(adc08dj_phy_rx_order) (line 128)
    settings_rx,           \* JESD204BSettings handed to the RX core
    clk_freq,              \* frequencies registered with the MMCM, kHz
    bufgmux_S,             \* level on the BUFGMUX select pin
    jesd_phys,             \* physical lanes built so far (their .n)
    tx_init_done,          \* phy.tx_init.done, per physical lane
    rx_init_done,          \* phy.rx_init.done, per physical lane
    resetsync_built,       \* the AsyncResetSynchronizer has been added
    rst_meta,              \* first flip-flop of the reset synchronizer
    jesd_rst,              \* cd_jesd.rst, second flip-flop
    recovery,              \* preset released since the last jesd clock edge
    jesd_phys_rx,          \* lanes in logical order (line 349)
    rx_core,               \* what LiteJESD204BCoreRX was constructed with
    enable,                \* jesd_rx_core.enable
    jsync,                 \* jesd_rx_core.jsync
    since_ready,           \* history: jesd edges since combined-ready rose
    regressed              \* history: some lane has dropped a done flag

vars == << pc, fault, adc08dj_phy_rx_order, jesd_lanes, settings_rx, clk_freq,
           bufgmux_S, jesd_phys, tx_init_done, rx_init_done, resetsync_built,
           rst_meta, jesd_rst, recovery, jesd_phys_rx, rx_core, enable, jsync,
           since_ready, regressed >>

---------------------------------------------------------------------------
(* Bounds of the configuration inputs.                                     *)

\* Longest lane order map enumerated exhaustively.
MaxMapLen == 4
\* Largest entry tried in a map (one past the last lane of a 4-lane map); the
\* smallest is -1, Python's index of the last element.
MaxEntry == 4
\* Cap of the history counter since_ready.
EdgeCap == 3

---------------------------------------------------------------------------
(* Configuration constants of the source.                                  *)

SourceOrder == << 3, 0, 2, 1 >>

\* The 8-lane map the source keeps in the comment of line 118.
SourceOrder8 == << 3, 0, 2, 1, 7, 4, 6, 5 >>

adc08dj_refclk_freq == 156250

adc08dj_jesd_linerate == 6250000

\* A quotient that is not a whole number of kHz.
Frac == 0 - 1

NoSettings ==
    [l |-> 0, m |-> 0, n |-> 0, np |-> 0, f |-> 0, s |-> 0, k |-> 0, cs |-> 0,
     did |-> 0, bid |-> 0, framing |-> FALSE, scrambling |-> FALSE]

NoClocks == [clkin |-> 0, jesd_156_25 |-> 0, jesd_78_125 |-> 0, clk156_25 |-> 0]

NoCore == [phys |-> << >>, settings |-> NoSettings, built |-> FALSE]

---------------------------------------------------------------------------
(* Pure helpers.                                                           *)

RECURSIVE SeqsUpTo(_, _)
\* All sequences over S of length at most n.
SeqsUpTo(S, n) ==
    IF n = 0 THEN { << >> }
    ELSE LET shorter == SeqsUpTo(S, n - 1)
         IN  shorter \cup { Append(q, x) : q \in { r \in shorter : Len(r) = n - 1 }, x \in S }

Entries == (0 - 1) .. MaxEntry

\* The 8-lane map and every map that differs from it in one entry.
Variants8 ==
    { [SourceOrder8 EXCEPT ![p] = v] :
        p \in 1 .. Len(SourceOrder8), v \in (0 - 1) .. Len(SourceOrder8) }

ConfigMaps == SeqsUpTo(Entries, MaxMapLen) \cup Variants8

\* a / b on Python floats holding whole numbers: exact when b divides a.
FloatDiv(a, b) == IF a = Frac \/ a % b # 0 THEN Frac ELSE a \div b

\* Faulty variant: the final else falls through instead of raising.
ConfigRaisesOnlyTwo(lanes) == lanes = 2

\* if / elif / else of lines 131-152: the lane counts that raise.
ConfigRaises(lanes) == lanes = 2 \/ (lanes # 4 /\ lanes # 8)

\* settings_rx of lines 139-141 (4 lanes) and 148-150 (8 lanes).
SettingsRx(lanes) ==
    IF lanes = 4
    THEN [l |-> 4, m |-> 4, n |-> 8, np |-> 8, f |-> 2, s |-> 1, k |-> 32, cs |-> 0,
          did |-> 90, bid |-> 5, framing |-> TRUE, scrambling |-> TRUE]
    ELSE [l |-> 8, m |-> 4, n |-> 16, np |-> 16, f |-> 2, s |-> 1, k |-> 32, cs |-> 0,
          did |-> 90, bid |-> 5, framing |-> TRUE, scrambling |-> TRUE]

\* Faulty variant: the line rate divided by the 20-bit data width.
userclk_freq_div20 == FloatDiv(adc08dj_jesd_linerate, 20)

\* userclk_freq (line 265).
userclk_freq == FloatDiv(adc08dj_jesd_linerate, 40)

\* The MMCM's input and the frequencies asked of it (lines 284-287).
Clocks ==
    [clkin       |-> FloatDiv(adc08dj_refclk_freq, 2),
     jesd_156_25 |-> userclk_freq,
     jesd_78_125 |-> FloatDiv(userclk_freq, 2),
     clk156_25   |-> 156250]

\* Python list indexing: list[n] raises IndexError outside -len .. len-1.
IndexOk(list, n) == (0 - Len(list)) <= n /\ n < Len(list)
PyIndex(list, n) == IF n >= 0 THEN list[n + 1] ELSE list[Len(list) + n + 1]

\* Faulty variant: the lanes passed on in physical order.
LaneRemapUnordered(phys, order) == [i \in 1 .. Len(order) |-> phys[i]]

\* [jesd_phys[n] for n in adc08dj_phy_rx_order] (line 349).
LaneRemap(phys, order) == [i \in 1 .. Len(order) |-> PyIndex(phys, order[i])]

\* Faulty variant: reduce(or_, list).
reduce_or(list) == \E i \in 1 .. Len(list) : list[i]

RECURSIVE reduce_and(_)
\* reduce(and_, list) on a non-empty list (lines 344-345): a left fold.
reduce_and(list) ==
    IF Len(list) = 1 THEN list[1]
    ELSE reduce_and(SubSeq(list, 1, Len(list) - 1)) /\ list[Len(list)]

---------------------------------------------------------------------------
(* Derived signals (combinational).                                        *)

jesd_phys_tx_init_done == reduce_and(tx_init_done)
jesd_phys_rx_init_done == reduce_and(rx_init_done)

\* The asynchronous reset input of the synchronizer (line 346).
AsyncReset == ~(jesd_phys_tx_init_done /\ jesd_phys_rx_init_done)

\* Faulty variant: the pair ORed.
jesd_link_status_or == (enable \/ jsync) /\ (enable \/ jsync)

\* self.jesd_link_status (lines 371-373): the same AND term twice.
jesd_link_status == (enable /\ jsync) /\ (enable /\ jsync)

\* The clock the BUFGMUX puts on cd_jesd (lines 288-293).
jesd_clk_source == IF bufgmux_S = 0 THEN "jesd_156_25" ELSE "jesd_78_125"

---------------------------------------------------------------------------
(* The constructor, BaseSoC.__init__ lines 114-373.                        *)

InitConfig ==
    /\ pc = "jesd_config"
    /\ fault = ""
    /\ adc08dj_phy_rx_order \in ConfigMaps
    /\ jesd_lanes = 0
    /\ settings_rx = NoSettings
    /\ clk_freq = NoClocks
    /\ bufgmux_S = 0
    /\ jesd_phys = << >>
    /\ tx_init_done = << >>
    /\ rx_init_done = << >>
    /\ resetsync_built = FALSE
    /\ rst_meta = TRUE
    /\ jesd_rst = TRUE
    /\ recovery = FALSE
    /\ jesd_phys_rx = << >>
    /\ rx_core = NoCore
    /\ enable = FALSE
    /\ jsync = FALSE
    /\ since_ready = 0
    /\ regressed = FALSE

hw_vars == << bufgmux_S, rst_meta, jesd_rst, recovery, enable, jsync,
              since_ready, regressed >>

\* Lines 128-152: the lane count and the link settings it selects.
JesdConfiguration ==
    /\ pc = "jesd_config"
    /\ jesd_lanes' = Len(adc08dj_phy_rx_order)
    /\ IF ConfigRaises(jesd_lanes')
       THEN /\ pc' = "fault"
            /\ fault' = "NotImplementedError"
            /\ UNCHANGED settings_rx
       ELSE /\ pc' = "clocking"
            /\ settings_rx' = SettingsRx(jesd_lanes')
            /\ UNCHANGED fault
    /\ UNCHANGED << adc08dj_phy_rx_order, clk_freq, jesd_phys, tx_init_done,
                    rx_init_done, resetsync_built, jesd_phys_rx, rx_core, hw_vars >>

\* Lines 265-294: the clock domains and the MMCM that drives them.
JesdClocking ==
    /\ pc = "clocking"
    /\ clk_freq' = Clocks
    /\ pc' = "phys"
    /\ UNCHANGED << fault, adc08dj_phy_rx_order, jesd_lanes, settings_rx, jesd_phys,
                    tx_init_done, rx_init_done, resetsync_built, jesd_phys_rx,
                    rx_core, hw_vars >>

\* Lines 322-342: one iteration of the loop that builds the lanes.
JesdPhy ==
    /\ pc = "phys"
    /\ IF Len(jesd_phys) < jesd_lanes
       THEN /\ jesd_phys' = Append(jesd_phys, Len(jesd_phys))
            /\ tx_init_done' = Append(tx_init_done, FALSE)
            /\ rx_init_done' = Append(rx_init_done, FALSE)
            /\ pc' = pc
       ELSE /\ pc' = "reset_sync"
            /\ UNCHANGED << jesd_phys, tx_init_done, rx_init_done >>
    /\ UNCHANGED << fault, adc08dj_phy_rx_order, jesd_lanes, settings_rx, clk_freq,
                    resetsync_built, jesd_phys_rx, rx_core, hw_vars >>

\* Lines 344-346: the two reductions and the reset synchronizer.
JesdResetSync ==
    /\ pc = "reset_sync"
    /\ IF Len(jesd_phys) = 0
       THEN /\ pc' = "fault"
            /\ fault' = "TypeError"
            /\ UNCHANGED resetsync_built
       ELSE /\ pc' = "remap"
            /\ resetsync_built' = TRUE
            /\ UNCHANGED fault
    /\ UNCHANGED << adc08dj_phy_rx_order, jesd_lanes, settings_rx, clk_freq, jesd_phys,
                    tx_init_done, rx_init_done, jesd_phys_rx, rx_core, hw_vars >>

\* Line 349: the lanes in logical order.
JesdRemap ==
    /\ pc = "remap"
    /\ IF \A i \in 1 .. Len(adc08dj_phy_rx_order) :
             IndexOk(jesd_phys, adc08dj_phy_rx_order[i])
       THEN /\ jesd_phys_rx' = LaneRemap(jesd_phys, adc08dj_phy_rx_order)
            /\ pc' = "rx_core"
            /\ UNCHANGED fault
       ELSE /\ pc' = "fault"
            /\ fault' = "IndexError"
            /\ UNCHANGED jesd_phys_rx
    /\ UNCHANGED << adc08dj_phy_rx_order, jesd_lanes, settings_rx, clk_freq, jesd_phys,
                    tx_init_done, rx_init_done, resetsync_built, rx_core, hw_vars >>

\* Lines 361-367: the protocol core gets the reordered lanes and the settings.
JesdRxCore ==
    /\ pc = "rx_core"
    /\ rx_core' = [phys |-> jesd_phys_rx, settings |-> settings_rx, built |-> TRUE]
    /\ pc' = "link_status"
    /\ UNCHANGED << fault, adc08dj_phy_rx_order, jesd_lanes, settings_rx, clk_freq,
                    jesd_phys, tx_init_done, rx_init_done, resetsync_built,
                    jesd_phys_rx, hw_vars >>

\* Lines 370-373: the link status signal; construction ends.
JesdLinkStatus ==
    /\ pc = "link_status"
    /\ pc' = "run"
    /\ UNCHANGED << fault, adc08dj_phy_rx_order, jesd_lanes, settings_rx, clk_freq,
                    jesd_phys, tx_init_done, rx_init_done, resetsync_built,
                    jesd_phys_rx, rx_core, hw_vars >>

NextConfig ==
    \/ JesdConfiguration
    \/ JesdClocking
    \/ JesdPhy
    \/ JesdResetSync
    \/ JesdRemap
    \/ JesdRxCore
    \/ JesdLinkStatus

ConfigSpec == InitConfig /\ [][NextConfig]_vars

---------------------------------------------------------------------------
(* The elaborated hardware.  The reset synchronizer of line 346 is the     *)
(* flip-flop pair the AsyncResetSynchronizer lowers to on this device:     *)
(*   FDPE(INIT=1, D=0,        PRE=async_reset, C=cd_jesd.clk, Q=rst_meta)  *)
(*   FDPE(INIT=1, D=rst_meta, PRE=async_reset, C=cd_jesd.clk, Q=cd_jesd.rst)*)
(* The lanes' done flags come from the transceivers' own clock domains     *)
(* (false paths of lines 337-341), so the preset may be released at any    *)
(* moment relative to the jesd clock: the first flip-flop's capture on the *)
(* edge that follows a release is then either value.                       *)

\* State after construction with the map of the source, as the bitstream
\* powers up: lanes not done, both flip-flops at INIT=1, core disabled.  The
\* BUFGMUX select pin is left unconnected (line 289 is commented out): the
\* build ties it to one level or the other.
Init ==
    /\ pc = "run"
    /\ fault = ""
    /\ adc08dj_phy_rx_order = SourceOrder
    /\ jesd_lanes = Len(SourceOrder)
    /\ settings_rx = SettingsRx(Len(SourceOrder))
    /\ clk_freq = Clocks
    /\ bufgmux_S \in {0, 1}
    /\ jesd_phys = [i \in 1 .. Len(SourceOrder) |-> i - 1]
    /\ tx_init_done = [i \in 1 .. Len(SourceOrder) |-> FALSE]
    /\ rx_init_done = [i \in 1 .. Len(SourceOrder) |-> FALSE]
    /\ resetsync_built = TRUE
    /\ rst_meta = TRUE
    /\ jesd_rst = TRUE
    /\ recovery = FALSE
    /\ jesd_phys_rx = LaneRemap(jesd_phys, SourceOrder)
    /\ rx_core = [phys |-> jesd_phys_rx, settings |-> settings_rx, built |-> TRUE]
    /\ enable = FALSE
    /\ jsync = FALSE
    /\ since_ready = 0
    /\ regressed = FALSE

conf_vars == << pc, fault, adc08dj_phy_rx_order, jesd_lanes, settings_rx, clk_freq,
                jesd_phys, resetsync_built, jesd_phys_rx, rx_core >>

\* Faulty variant: no asynchronous preset, the reset input is only sampled
\* at clock edges (a plain synchronous reset synchronizer).
FDPE_PresetSyncOnly(pre, q) == q

\* Faulty variant: the output follows the reset input combinationally, on
\* release as well as on assertion.
FDPE_PresetFollow(pre, q) == pre

\* Asynchronous preset of an FDPE: Q is forced high while PRE is high.
FDPE_Preset(pre, q) == IF pre THEN TRUE ELSE q

\* An FDPE at a rising clock edge: the preset wins over D.
FDPE_Edge(d, pre) == IF pre THEN TRUE ELSE d

\* Faulty variant: D of the first flip-flop tied high.
FDPE_D0_Stuck == TRUE

\* D input of the first flip-flop (tied low).
FDPE_D0 == FALSE

\* Faulty variant: i_S driven by the register software writes.
BUFGMUX_S_FromCsr(level, storage) == IF storage THEN 1 ELSE 0

\* The select of the BUFGMUX after a write to the core's control register:
\* i_S is not connected to any register, the level never moves.
BUFGMUX_S(level, storage) == level

\* The effect of new lane flags on the synchronizer: the presets act at once.
LaneFlagsChanged ==
    /\ rst_meta' = FDPE_Preset(AsyncReset', rst_meta)
    /\ jesd_rst' = FDPE_Preset(AsyncReset', jesd_rst)
    /\ recovery' = IF AsyncReset' THEN FALSE
                   ELSE IF AsyncReset THEN TRUE ELSE recovery
    /\ since_ready' = IF AsyncReset' \/ AsyncReset THEN 0 ELSE since_ready
    /\ UNCHANGED << conf_vars, bufgmux_S, enable, jsync >>

\* Physical lane i's tx_init.done changes level.
TxInitDone(i) ==
    /\ pc = "run"
    /\ tx_init_done' = [tx_init_done EXCEPT ![i + 1] = ~tx_init_done[i + 1]]
    /\ regressed' = (regressed \/ tx_init_done[i + 1])
    /\ UNCHANGED rx_init_done
    /\ LaneFlagsChanged

\* Physical lane i's rx_init.done changes level.
RxInitDone(i) ==
    /\ pc = "run"
    /\ rx_init_done' = [rx_init_done EXCEPT ![i + 1] = ~rx_init_done[i + 1]]
    /\ regressed' = (regressed \/ rx_init_done[i + 1])
    /\ UNCHANGED tx_init_done
    /\ LaneFlagsChanged

\* A rising edge of the jesd clock.
JesdClk ==
    /\ pc = "run"
    /\ rst_meta' \in { FDPE_Edge(FDPE_D0, AsyncReset) }
                       \cup (IF recovery /\ ~AsyncReset THEN {rst_meta} ELSE {})
    /\ jesd_rst' = FDPE_Edge(rst_meta, AsyncReset)
    /\ recovery' = FALSE
    /\ since_ready' = IF AsyncReset THEN 0
                      ELSE IF since_ready < EdgeCap THEN since_ready + 1 ELSE since_ready
    /\ UNCHANGED << conf_vars, bufgmux_S, tx_init_done, rx_init_done, enable, jsync,
                    regressed >>

\* Software writes the enable field of the core's control register
\* (LiteJESD204BCoreControl, line 365).
CsrWriteEnable(b) ==
    /\ pc = "run"
    /\ enable' = b
    /\ bufgmux_S' = BUFGMUX_S(bufgmux_S, b)
    /\ UNCHANGED << conf_vars, tx_init_done, rx_init_done, rst_meta, jesd_rst,
                    recovery, jsync, since_ready, regressed >>

\* The protocol core moves its jsync output.
CoreJsync(b) ==
    /\ pc = "run"
    /\ jsync' = b
    /\ UNCHANGED << conf_vars, bufgmux_S, tx_init_done, rx_init_done, rst_meta,
                    jesd_rst, recovery, enable, since_ready, regressed >>

Next ==
    \/ \E i \in 0 .. jesd_lanes - 1 : TxInitDone(i)
    \/ \E i \in 0 .. jesd_lanes - 1 : RxInitDone(i)
    \/ JesdClk
    \/ \E b \in BOOLEAN : CsrWriteEnable(b)
    \/ \E b \in BOOLEAN : CoreJsync(b)

Spec == Init /\ [][Next]_vars

\* The jesd clock is a free-running MMCM output: edges keep coming.
FairSpec == Spec /\ WF_vars(JesdClk)

---------------------------------------------------------------------------
(* Properties.                                                             *)

Lanes == 1 .. Len(jesd_phys)

AllTxDone == \A i \in Lanes : tx_init_done[i]
AllRxDone == \A i \in Lanes : rx_init_done[i]

\* Flags of either direction that are low.
LowFlags ==
    Cardinality({ i \in Lanes : ~tx_init_done[i] }) +
    Cardinality({ i \in Lanes : ~rx_init_done[i] })

\* C1: the jesd domain's reset is asserted in every state in which some
\* lane's tx or rx done flag is low, i.e. whenever NOT(all_tx_ready AND
\* all_rx_ready); this includes the state right after the step in which a
\* flag drops, before any jesd clock edge.
C1_ResetAssertedWhileNotReady ==
    /\ AsyncReset => jesd_rst
    /\ ~(AllTxDone /\ AllRxDone) => jesd_rst

\* A single lane flag has dropped after bring-up, no clock edge has been
\* counted since, and the reset is asserted.
C1_Witness ==
    /\ regressed
    /\ LowFlags = 1
    /\ since_ready = 0
    /\ jesd_rst

\* C2: the reset is released only while combined-ready holds and at least
\* one jesd clock edge has passed since combined-ready last rose; it is
\* never low in the state a rise of combined-ready leads to, nor after a
\* drop and a new rise until edges have passed again.
C2_ReleaseLagsReady ==
    ~jesd_rst => (~AsyncReset /\ since_ready >= 1)

\* The reset has just been released, two edges after combined-ready rose.
C2_Witness ==
    /\ ~AsyncReset
    /\ ~jesd_rst
    /\ since_ready = 2

\* C3: all_tx_ready is true exactly when every physical lane's tx done flag
\* is true, and all_rx_ready exactly when every physical lane's rx done flag
\* is true, in every state (so any single low flag clears it, and it is not
\* true before the last lane's flag is).
C3_ReadyIsAndOverLanes ==
    /\ jesd_phys_tx_init_done = AllTxDone
    /\ jesd_phys_rx_init_done = AllRxDone

\* Every lane but physical lane 3 reports rx done: all_rx_ready is low.
C3_Witness ==
    /\ \A i \in Lanes : rx_init_done[i] = (jesd_phys[i] # 3)
    /\ AllTxDone
    /\ ~jesd_phys_rx_init_done

\* C4: whenever all lanes are done, the reset is eventually released unless
\* a lane drops first: no state with all lanes done keeps the reset
\* asserted for ever.
C4_ResetEventuallyReleased ==
    (~AsyncReset) ~> (~jesd_rst \/ AsyncReset)

\* The reset is released again after a lane had dropped its flag.
C4_Witness ==
    /\ regressed
    /\ ~AsyncReset
    /\ ~jesd_rst

\* C5: once the lane count has been examined, a count of 4 or 8 has selected
\* settings whose lane count L is that count and no unsupported-count fault;
\* any other count (2 and 0 included) has ended construction with that
\* fault, with no lane, no reset synchronizer and no protocol core built.
C5_OnlyFourAndEightLanes ==
    pc # "jesd_config" =>
        IF Len(adc08dj_phy_rx_order) \in {4, 8}
        THEN /\ fault # "NotImplementedError"
             /\ settings_rx.l = Len(adc08dj_phy_rx_order)
        ELSE /\ pc = "fault"
             /\ fault = "NotImplementedError"
             /\ settings_rx = NoSettings
             /\ jesd_phys = << >>
             /\ ~resetsync_built
             /\ ~rx_core.built

\* A 2-lane map has been rejected.
C5_Witness ==
    /\ Len(adc08dj_phy_rx_order) = 2
    /\ pc = "fault"
    /\ fault = "NotImplementedError"

\* An entry outside [0, N) or a duplicated entry.
Malformed(order) ==
    \/ \E i \in 1 .. Len(order) : order[i] < 0 \/ order[i] >= Len(order)
    \/ \E i, j \in 1 .. Len(order) : i # j /\ order[i] = order[j]

\* C6: with a malformed lane order map no lane is ever instantiated, the
\* reordered lanes never reach the protocol core and construction never
\* completes.
C6_MalformedMapRejectedEagerly ==
    Malformed(adc08dj_phy_rx_order) =>
        /\ jesd_phys = << >>
        /\ ~rx_core.built
        /\ pc # "run"

\* C7: the link status equals enable AND sync in every state, whatever the
\* lanes' flags and the reset are.
C7_LinkStatusIsEnableAndSync ==
    jesd_link_status = (enable /\ jsync)

\* The core is enabled and in sync while the jesd domain is held in reset
\* by a lane that is not done: the link status is high.
C7_Witness ==
    /\ enable
    /\ jsync
    /\ AsyncReset
    /\ jesd_rst
    /\ jesd_link_status

IsPermutation(order) ==
    \A n \in 0 .. Len(order) - 1 :
        Cardinality({ i \in 1 .. Len(order) : order[i] = n }) = 1

InversePermutation(order) ==
    [j \in 1 .. Len(order) |-> (CHOOSE i \in 1 .. Len(order) : order[i] = j - 1) - 1]

\* The lanes in identity order: physical lane i at position i.
IdentityLanes(n) == [i \in 1 .. n |-> i - 1]

\* C8: for a map that is a permutation of 0..N-1, the reordered array holds
\* physical lane map[i] at logical position i, holds every physical lane
\* exactly once, and reordering it by the inverse permutation gives the
\* identity order back.
C8_RemapIsThePermutation ==
    (pc \in {"rx_core", "link_status", "run"} /\ IsPermutation(adc08dj_phy_rx_order)) =>
        /\ \A i \in 1 .. jesd_lanes : jesd_phys_rx[i] = adc08dj_phy_rx_order[i]
        /\ \A n \in 0 .. jesd_lanes - 1 :
               Cardinality({ i \in 1 .. jesd_lanes : jesd_phys_rx[i] = n }) = 1
        /\ [j \in 1 .. jesd_lanes |->
               jesd_phys_rx[InversePermutation(adc08dj_phy_rx_order)[j] + 1]]
           = IdentityLanes(jesd_lanes)

\* Construction has completed with the 8-lane map.
C8_Witness ==
    /\ pc = "run"
    /\ adc08dj_phy_rx_order = SourceOrder8
    /\ rx_core.phys = << 3, 0, 2, 1, 7, 4, 6, 5 >>

\* C9: once the clocks are set up, the MMCM input is the reference halved,
\* 78.125 MHz; the full-rate domain is line rate / 40, 156.25 MHz; the
\* half-rate domain is half of it, 78.125 MHz; the auxiliary domain is
\* 156.25 MHz; every one a whole number with no remainder dropped.
C9_ClockFrequenciesExact ==
    pc \in {"phys", "reset_sync", "remap", "rx_core", "link_status", "run"} =>
        /\ clk_freq.clkin = 78125
        /\ clk_freq.clkin * 2 = adc08dj_refclk_freq
        /\ clk_freq.jesd_156_25 = 156250
        /\ clk_freq.jesd_156_25 * 40 = adc08dj_jesd_linerate
        /\ clk_freq.jesd_78_125 = 78125
        /\ clk_freq.jesd_78_125 * 2 = clk_freq.jesd_156_25
        /\ clk_freq.clk156_25 = 156250
        /\ \A d \in DOMAIN clk_freq : clk_freq[d] # Frac

\* The clocks are set up and the lanes are being built.
C9_Witness ==
    /\ pc = "phys"
    /\ clk_freq = Clocks
    /\ Len(jesd_phys) = 1

\* C10: the jesd clock is always one of the two generated clocks, and the
\* select that picks it never changes once the hardware runs.
C10_ClockSelectStatic ==
    /\ [](jesd_clk_source \in {"jesd_156_25", "jesd_78_125"})
    /\ [][bufgmux_S' = bufgmux_S]_vars

\* The half-rate clock is selected and stays while software has enabled the
\* core.
C10_Witness ==
    /\ jesd_clk_source = "jesd_78_125"
    /\ enable
    /\ ~jesd_rst

=============================================================================
